---- MODULE Spec2Model ----
(***************************************************************************)
(* The in-memory event store of eventually-rs (InMemoryEventStore): a map  *)
(* from the string form of a stream id to the stream's persisted events,   *)
(* behind one RwLock.  Callers run `append` and `stream` concurrently.     *)
(***************************************************************************)
EXTENDS Integers, Sequences, FiniteSets, TLC

\* ---------------------------------------------------------------- bounds
\* Most events one append call supplies.
MaxBatch == 2
\* Most events the callers supply over a whole run (stored or in flight).
MaxEvents == 2
\* Largest version a caller names in Exact(v) or From(v): one past the end.
MaxVersion == MaxEvents + 1

\* The callers sharing the store (clones of one InMemoryEventStore).
Procs == {"c1", "c2"}
\* Stream ids (the generic Id; rendered to the map key by Display).
Ids == {1, 2}
\* Event payloads (the generic Evt).
Payloads == {"a", "b"}

VARIABLES
    event_streams,  \* backend.event_streams: key -> sequence of Persisted
    global_offset,  \* the AtomicU64 of the store
    writer,         \* callers holding the RwLock's write guard (at most one)
    readers,        \* callers holding a read guard
    pc,             \* where each caller is in its call
    call,           \* arguments of each caller's current or latest call
    result,         \* value returned by each caller's latest call
    rivals,         \* rivals[p]: sizes of the appends that succeeded during
                    \* p's append with p's stream id and Exact precondition
    appended,       \* per id appended to, the payloads appended, in order
    last_returned,  \* per id, the version its latest successful append returned
    completed,      \* completed[p]: events of p's stream id whose appends had
                    \* returned when p's stream call began
    disturbed,      \* disturbed[p]: p's Exact(V) append did not start at last
                    \* version V, or an append with another precondition
                    \* succeeded on its stream id during the call
    replay          \* the replay of one stream into an aggregate state

vars == <<event_streams, global_offset, writer, readers, pc, call, result,
          rivals, appended, last_returned, completed, disturbed, replay>>

\* ------------------------------------------------------------ data types
\* event::StreamVersionExpected
AnyVersion == [kind |-> "AnyVersion", v |-> 0]
Exact(v) == [kind |-> "Exact", v |-> v]
\* event::VersionSelect
All == [kind |-> "All", v |-> 0]
From(v) == [kind |-> "From", v |-> v]

VersionChecks == {AnyVersion} \cup {Exact(v) : v \in 0..MaxVersion}
VersionSelects == {All} \cup {From(v) : v \in 0..MaxVersion}

\* Events<Evt>: the lists of at most MaxBatch payloads.
Batches == UNION {[1..n -> Payloads] : n \in 0..MaxBatch}

\* event::Persisted { stream_id, version, inner }
Persisted(id, version, inner) ==
    [stream_id |-> id, version |-> version, inner |-> inner]

NoCall == [op |-> "none", id |-> 0, check |-> AnyVersion, select |-> All,
           events |-> <<>>]
AppendCall(id, check, events) ==
    [op |-> "append", id |-> id, check |-> check, select |-> All,
     events |-> events]
StreamCall(id, select) ==
    [op |-> "stream", id |-> id, check |-> AnyVersion, select |-> select,
     events |-> <<>>]

NoResult == [kind |-> "none", version |-> 0, expected |-> 0, actual |-> 0,
             items |-> <<>>]
\* Ok(new_last_event_stream_version)
OkVersion(v) == [kind |-> "ok", version |-> v, expected |-> 0, actual |-> 0,
                 items |-> <<>>]
\* The boxed stream `stream` returns, as the list of its elements.
StreamOf(items) == [kind |-> "stream", version |-> 0, expected |-> 0,
                    actual |-> 0, items |-> items]

\* Err(ConflictError { expected, actual })
ConflictError(expected, actual) ==
    [kind |-> "conflict", version |-> 0, expected |-> expected,
     actual |-> actual, items |-> <<>>]

\* ------------------------------------------------------ pure helpers
\* id.to_string(): Display of the id.
to_string(id) == ToString(id)

\* Mutant: the last version is taken over every stream of the map, like a
\* global offset.
last_event_stream_version_global(streams, key) ==
    LET all == UNION {{streams[k][n].version : n \in DOMAIN streams[k]} :
                         k \in DOMAIN streams}
    IN  IF all = {} THEN 0
        ELSE CHOOSE m \in all : \A x \in all : x <= m

\* backend.event_streams.get(key).and_then(last).map(version)
\*        .unwrap_or_default()
last_event_stream_version(streams, key) ==
    IF key \in DOMAIN streams /\ Len(streams[key]) > 0
    THEN streams[key][Len(streams[key])].version
    ELSE 0

\* Mutant: only a stream behind the expected version is a conflict.
version_conflict_behind(check, last) ==
    check.kind = "Exact" /\ last < check.v

\* Mutant: the version is compared whatever the precondition is.
version_conflict_always_compared(check, last) ==
    last # check.v

\* The Exact arm of the precondition: TRUE when the append must fail.
version_conflict(check, last) ==
    check.kind = "Exact" /\ last # check.v

\* Mutant: only the first event of the batch is persisted.
persisted_events_first_only(id, last, events) ==
    [n \in 1..(IF Len(events) > 0 THEN 1 ELSE 0) |->
        Persisted(id, last + (n - 1) + 1, events[n])]

\* Mutant: the "+ 1" of the version is forgotten.
persisted_events_from_zero(id, last, events) ==
    [n \in 1..Len(events) |-> Persisted(id, last + (n - 1), events[n])]

\* events.into_iter().enumerate().map(..).collect(); enumerate counts from 0.
persisted_events(id, last, events) ==
    [n \in 1..Len(events) |-> Persisted(id, last + (n - 1) + 1, events[n])]

\* persisted_events.last().map(version).unwrap_or_default()
new_last_event_stream_version(persisted) ==
    IF Len(persisted) > 0 THEN persisted[Len(persisted)].version ELSE 0

\* Mutant: the new events go in front of the stream's events.
entry_append_front(streams, key, persisted) ==
    [k \in DOMAIN streams \cup {key} |->
        IF k = key
        THEN IF key \in DOMAIN streams
             THEN persisted \o streams[key]
             ELSE persisted
        ELSE streams[k]]

\* Mutant: event_streams.insert(key, persisted) replaces the stream.
entry_insert(streams, key, persisted) ==
    [k \in DOMAIN streams \cup {key} |->
        IF k = key THEN persisted ELSE streams[k]]

\* event_streams.entry(key).and_modify(append).or_insert_with(persisted)
entry_append(streams, key, persisted) ==
    [k \in DOMAIN streams \cup {key} |->
        IF k = key
        THEN IF key \in DOMAIN streams
             THEN streams[key] \o persisted
             ELSE persisted
        ELSE streams[k]]

\* Mutant: the entry is created (or_default) before the precondition is
\* evaluated.
streams_after_append_entry_first(streams, id, check, events) ==
    LET key == to_string(id)
        last == last_event_stream_version(streams, key)
    IN  entry_append(streams, key,
            IF version_conflict(check, last)
            THEN <<>>
            ELSE persisted_events(id, last, events))

\* The map after the body of append has run.
streams_after_append(streams, id, check, events) ==
    LET key == to_string(id)
        last == last_event_stream_version(streams, key)
    IN  IF version_conflict(check, last)
        THEN streams
        ELSE entry_append(streams, key, persisted_events(id, last, events))

\* Mutant: the ConflictError reports the expected version as the actual one.
append_result_expected_twice(streams, id, check, events) ==
    LET key == to_string(id)
        last == last_event_stream_version(streams, key)
    IN  IF version_conflict(check, last)
        THEN ConflictError(check.v, check.v)
        ELSE OkVersion(new_last_event_stream_version(
                           persisted_events(id, last, events)))

\* Mutant: the two fields of the ConflictError are swapped.
append_result_swapped(streams, id, check, events) ==
    LET key == to_string(id)
        last == last_event_stream_version(streams, key)
    IN  IF version_conflict(check, last)
        THEN ConflictError(last, check.v)
        ELSE OkVersion(new_last_event_stream_version(
                           persisted_events(id, last, events)))

\* The value append returns.
append_result(streams, id, check, events) ==
    LET key == to_string(id)
        last == last_event_stream_version(streams, key)
    IN  IF version_conflict(check, last)
        THEN ConflictError(check.v, last)
        ELSE OkVersion(new_last_event_stream_version(
                           persisted_events(id, last, events)))

\* Mutant: the From arm keeps every event, like All.
select_matches_from_ignored(select, evt) ==
    TRUE

\* Mutant: From(v) keeps the versions after v only.
select_matches_after(select, evt) ==
    CASE select.kind = "All" -> TRUE
      [] select.kind = "From" -> evt.version > select.v

\* The closure given to filter.
select_matches(select, evt) ==
    CASE select.kind = "All" -> TRUE
      [] select.kind = "From" -> evt.version >= select.v

\* Result::Ok(evt), an element of the returned stream.
Ok(evt) == [ok |-> TRUE, value |-> evt]

\* Mutant: a stream id the map does not hold is reported as an error element.
stream_events_not_found(streams, id, select) ==
    LET key == to_string(id)
        cloned == IF key \in DOMAIN streams THEN streams[key] ELSE <<>>
        kept == SelectSeq(cloned, LAMBDA evt : select.kind = "All"
                                              \/ evt.version >= select.v)
    IN  IF key \in DOMAIN streams
        THEN [n \in 1..Len(kept) |-> Ok(kept[n])]
        ELSE <<[ok |-> FALSE, value |-> Persisted(id, 0, "not found")]>>

\* Mutant: the newest record of the stream is left out of the copy.
stream_events_without_newest(streams, id, select) ==
    LET key == to_string(id)
        cloned == IF key \in DOMAIN streams THEN streams[key] ELSE <<>>
        older == SubSeq(cloned, 1, Len(cloned) - 1)
        kept == SelectSeq(older, LAMBDA evt : select.kind = "All"
                                             \/ evt.version >= select.v)
    IN  [n \in 1..Len(kept) |-> Ok(kept[n])]

\* get(key).cloned().unwrap_or(Vec::new()).into_iter().filter(..), then
\* iter(events).map(Ok)
stream_events(streams, id, select) ==
    LET key == to_string(id)
        cloned == IF key \in DOMAIN streams THEN streams[key] ELSE <<>>
        kept == SelectSeq(cloned, LAMBDA evt : select_matches(select, evt))
    IN  [n \in 1..Len(kept) |-> Ok(kept[n])]

\* Mutant: the events are taken out of the map (remove) instead of cloned.
streams_after_stream_taken(streams, id) ==
    [k \in DOMAIN streams \ {to_string(id)} |-> streams[k]]

\* The map after the body of stream has run: the read guard gives `get`
\* and the events are cloned, so the map is the one it was.
streams_after_stream(streams, id) == streams

\* ------------------------------------------------- aggregate and fold
\* A sample Aggregate: the state is a count, event "a" adds one to it and
\* event "b" takes one away, which an empty count refuses.
NoError == [event |-> "", state |-> 0]
ApplyOk(state) == [ok |-> TRUE, state |-> state, error |-> NoError]
ApplyErr(event, state) ==
    [ok |-> FALSE, state |-> 0, error |-> [event |-> event, state |-> state]]

\* Aggregate::apply(state, event) -> Result<State, Error>
apply(state, event) ==
    CASE event = "a" -> ApplyOk(state + 1)
      [] event = "b" -> IF state = 0 THEN ApplyErr(event, state)
                        ELSE ApplyOk(state - 1)

\* The initial states a replay starts from.
InitialStates == {0, 1, 2}

\* What fold returns: the final state or the first error, and the number of
\* events it handed to apply.
FoldOk(state, applied) ==
    [ok |-> TRUE, state |-> state, error |-> NoError, applied |-> applied]
FoldErr(error, applied) ==
    [ok |-> FALSE, state |-> 0, error |-> error, applied |-> applied]

\* Mutant: an event apply refuses is skipped and the fold goes on.
RECURSIVE fold_skipping(_, _, _)
fold_skipping(state, events, n) ==
    IF n = Len(events) THEN FoldOk(state, n)
    ELSE LET r == apply(state, events[n + 1])
         IN  fold_skipping(IF r.ok THEN r.state ELSE state, events, n + 1)

\* The fold once n events are applied: apply the next, stop at an error.
RECURSIVE fold_from(_, _, _)
fold_from(state, events, n) ==
    IF n = Len(events) THEN FoldOk(state, n)
    ELSE LET r == apply(state, events[n + 1])
         IN  IF r.ok THEN fold_from(r.state, events, n + 1)
             ELSE FoldErr(r.error, n + 1)

\* Mutant: see fold_skipping.
fold_keeps_going(initial_state, events) ==
    fold_skipping(initial_state, events, 0)

\* fold(initial_state, event_sequence) -> Result<final_state, Error>
fold(initial_state, events) == fold_from(initial_state, events, 0)

\* The events of the elements a stream call returned.
FoldEvents(items) == [n \in 1..Len(items) |-> items[n].value.inner]

\* ------------------------------------------------------------ the state
\* No replay is in progress.
NoFold == [pc |-> "none"]

RECURSIVE PendingEvents(_)
PendingEvents(ps) ==
    IF ps = {} THEN 0
    ELSE LET p == CHOOSE q \in ps : TRUE
         IN (IF pc[p] \in {"a_wait", "a_locked"}
             THEN Len(call[p].events) ELSE 0) + PendingEvents(ps \ {p})

RECURSIVE StoredEvents(_)
StoredEvents(keys) ==
    IF keys = {} THEN 0
    ELSE LET k == CHOOSE x \in keys : TRUE
         IN Len(event_streams[k]) + StoredEvents(keys \ {k})

Init ==
    /\ event_streams = <<>>
    /\ global_offset = 0
    /\ writer = {}
    /\ readers = {}
    /\ pc = [p \in Procs |-> "idle"]
    /\ call = [p \in Procs |-> NoCall]
    /\ result = [p \in Procs |-> NoResult]
    /\ rivals = [p \in Procs |-> {}]
    /\ appended = <<>>
    /\ last_returned = [id \in Ids |-> 0]
    /\ completed = [p \in Procs |-> 0]
    /\ disturbed = [p \in Procs |-> FALSE]
    /\ replay = NoFold

\* Same stream id and same Exact precondition.
SameClaim(c, d) ==
    /\ c.op = "append" /\ d.op = "append"
    /\ c.id = d.id
    /\ c.check.kind = "Exact" /\ d.check = c.check

\* A caller invokes append(id, version_check, events).
AppendStart(p) ==
    /\ pc[p] = "idle"
    /\ \E id \in Ids, check \in VersionChecks, events \in Batches :
          /\ StoredEvents(DOMAIN event_streams) + PendingEvents(Procs)
                + Len(events) <= MaxEvents
          /\ call' = [call EXCEPT ![p] = AppendCall(id, check, events)]
          /\ rivals' = [rivals EXCEPT ![p] =
                {Len(call[q].events) : q \in {r \in Procs \ {p} :
                    /\ pc[r] = "a_exit" /\ result[r].kind = "ok"
                    /\ SameClaim(call[r], AppendCall(id, check, events))}}]
          /\ disturbed' = [disturbed EXCEPT ![p] =
                /\ check.kind = "Exact"
                /\ \/ \E r \in Procs \ {p} :
                          /\ pc[r] = "a_exit" /\ result[r].kind = "ok"
                          /\ call[r].id = id
                          /\ ~SameClaim(call[r], AppendCall(id, check, events))
                   \/ /\ last_event_stream_version(event_streams,
                                                    to_string(id)) # check.v
                      /\ ~\E r \in Procs \ {p} :
                            /\ pc[r] = "a_exit" /\ result[r].kind = "ok"
                            /\ SameClaim(call[r],
                                         AppendCall(id, check, events))]
    /\ pc' = [pc EXCEPT ![p] = "a_wait"]
    /\ UNCHANGED <<event_streams, global_offset, writer, readers, result,
                   appended, last_returned, completed, replay>>

\* self.backend.write(): granted when no guard is out.
AppendLock(p) ==
    /\ pc[p] = "a_wait"
    /\ writer = {} /\ readers = {}
    /\ writer' = {p}
    /\ pc' = [pc EXCEPT ![p] = "a_locked"]
    /\ UNCHANGED <<event_streams, global_offset, readers, call, result,
                   rivals, appended, last_returned,
                   completed, disturbed, replay>>

\* The payloads appended to id so far, followed by events.
AppendedAfter(id, events) ==
    [i \in DOMAIN appended \cup {id} |->
        IF i = id
        THEN (IF id \in DOMAIN appended THEN appended[id] ELSE <<>>) \o events
        ELSE appended[i]]

\* The body of append, run under the write guard.
AppendBody(p) ==
    /\ pc[p] = "a_locked"
    /\ LET c == call[p]
           r == append_result(event_streams, c.id, c.check, c.events)
       IN  /\ event_streams' =
                 streams_after_append(event_streams, c.id, c.check, c.events)
           /\ result' = [result EXCEPT ![p] = r]
           /\ appended' = IF r.kind = "ok"
                          THEN AppendedAfter(c.id, c.events)
                          ELSE appended
           /\ rivals' = [q \in Procs |->
                 IF /\ q # p /\ r.kind = "ok" /\ pc[q] = "a_wait"
                    /\ SameClaim(call[q], c)
                 THEN rivals[q] \cup {Len(c.events)}
                 ELSE rivals[q]]
           /\ disturbed' = [q \in Procs |->
                 \/ disturbed[q]
                 \/ /\ q # p /\ r.kind = "ok" /\ pc[q] = "a_wait"
                    /\ call[q].op = "append" /\ call[q].id = c.id
                    /\ call[q].check.kind = "Exact"
                    /\ ~SameClaim(call[q], c)]
    /\ pc' = [pc EXCEPT ![p] = "a_exit"]
    /\ UNCHANGED <<global_offset, writer, readers, call, last_returned,
                   completed, replay>>

\* Mutant: append returns with the write guard still out.
AppendReturn_keeps_guard(p) ==
    /\ pc[p] = "a_exit"
    /\ writer' = writer
    /\ last_returned' = IF result[p].kind = "ok"
                        THEN [last_returned EXCEPT ![call[p].id] =
                                 result[p].version]
                        ELSE last_returned
    /\ pc' = [pc EXCEPT ![p] = "idle"]
    /\ call' = [call EXCEPT ![p] = NoCall]
    /\ result' = [result EXCEPT ![p] = NoResult]
    /\ rivals' = [rivals EXCEPT ![p] = {}]
    /\ disturbed' = [disturbed EXCEPT ![p] = FALSE]
    /\ UNCHANGED <<event_streams, global_offset, readers, appended,
                   completed, replay>>

\* append returns: the write guard is dropped.
AppendReturn(p) ==
    /\ pc[p] = "a_exit"
    /\ writer' = writer \ {p}
    /\ last_returned' = IF result[p].kind = "ok"
                        THEN [last_returned EXCEPT ![call[p].id] =
                                 result[p].version]
                        ELSE last_returned
    /\ pc' = [pc EXCEPT ![p] = "idle"]
    /\ call' = [call EXCEPT ![p] = NoCall]
    /\ result' = [result EXCEPT ![p] = NoResult]
    /\ rivals' = [rivals EXCEPT ![p] = {}]
    /\ disturbed' = [disturbed EXCEPT ![p] = FALSE]
    /\ UNCHANGED <<event_streams, global_offset, readers, appended,
                   completed, replay>>

\* The number of events of id whose appends have returned: those appended,
\* less the batch of an append that still holds the write guard.
ReturnedEvents(id) ==
    LET held == {r \in Procs : /\ pc[r] = "a_exit" /\ result[r].kind = "ok"
                               /\ call[r].id = id}
        all == IF id \in DOMAIN appended THEN Len(appended[id]) ELSE 0
    IN  IF held = {} THEN all
        ELSE all - Len(call[CHOOSE r \in held : TRUE].events)

\* A caller invokes stream(id, select).
StreamStart(p) ==
    /\ pc[p] = "idle"
    /\ \E id \in Ids, select \in VersionSelects :
          /\ call' = [call EXCEPT ![p] = StreamCall(id, select)]
          /\ completed' = [completed EXCEPT ![p] = ReturnedEvents(id)]
    /\ pc' = [pc EXCEPT ![p] = "s_wait"]
    /\ UNCHANGED <<event_streams, global_offset, writer, readers, result,
                   rivals, appended, last_returned, disturbed, replay>>

\* self.backend.read(): granted when no write guard is out.
StreamLock(p) ==
    /\ pc[p] = "s_wait"
    /\ writer = {}
    /\ readers' = readers \cup {p}
    /\ pc' = [pc EXCEPT ![p] = "s_locked"]
    /\ UNCHANGED <<event_streams, global_offset, writer, call, result,
                   rivals, appended, last_returned,
                   completed, disturbed, replay>>

\* The body of stream, run under the read guard.
StreamBody(p) ==
    /\ pc[p] = "s_locked"
    /\ result' = [result EXCEPT ![p] =
          StreamOf(stream_events(event_streams, call[p].id, call[p].select))]
    /\ event_streams' = streams_after_stream(event_streams, call[p].id)
    /\ pc' = [pc EXCEPT ![p] = "s_exit"]
    /\ UNCHANGED <<global_offset, writer, readers, call, rivals, appended,
                   last_returned, completed, disturbed, replay>>

\* stream returns: the read guard is dropped.
StreamReturn(p) ==
    /\ pc[p] = "s_exit"
    /\ readers' = readers \ {p}
    /\ pc' = [pc EXCEPT ![p] = "idle"]
    /\ call' = [call EXCEPT ![p] = NoCall]
    /\ result' = [result EXCEPT ![p] = NoResult]
    /\ completed' = [completed EXCEPT ![p] = 0]
    /\ UNCHANGED <<event_streams, global_offset, writer, rivals, appended,
                   last_returned, disturbed, replay>>

Next ==
    \E p \in Procs :
        \/ AppendStart(p)
        \/ AppendLock(p)
        \/ AppendBody(p)
        \/ AppendReturn(p)
        \/ StreamStart(p)
        \/ StreamLock(p)
        \/ StreamBody(p)
        \/ StreamReturn(p)

Spec == Init /\ [][Next]_vars

\* ------------------------------------------------------------ scheduling
\* The steps of a call once it is started: taking the lock, the body, the
\* return.
Proceed(p) ==
    \/ AppendLock(p)
    \/ AppendBody(p)
    \/ AppendReturn(p)
    \/ StreamLock(p)
    \/ StreamBody(p)
    \/ StreamReturn(p)

\* The store after one append of a batch of "a" events to stream id 1 has
\* returned, with room for one more event at most.
LiveInit ==
    /\ \E b \in Batches :
          /\ Len(b) >= MaxEvents - 1
          /\ \A n \in 1..Len(b) : b[n] = "a"
          /\ event_streams = streams_after_append(<<>>, 1, AnyVersion, b)
          /\ appended = (1 :> b)
          /\ last_returned = [id \in Ids |-> IF id = 1 THEN Len(b) ELSE 0]
    /\ global_offset = 0
    /\ writer = {}
    /\ readers = {}
    /\ pc = [p \in Procs |-> "idle"]
    /\ call = [p \in Procs |-> NoCall]
    /\ result = [p \in Procs |-> NoResult]
    /\ rivals = [p \in Procs |-> {}]
    /\ completed = [p \in Procs |-> 0]
    /\ disturbed = [p \in Procs |-> FALSE]
    /\ replay = NoFold

\* The callers under weak fairness: a started call whose next step stays
\* possible takes it. When and whether a caller starts a call is free.
LiveSpec ==
    LiveInit /\ [][Next]_vars /\ \A p \in Procs : WF_vars(Proceed(p))

\* ---------------------------------------------------------------- replay
\* A caller rebuilds the aggregate state of one stream from the store, in
\* one read or in batches (a snapshot, then the tail From(v)).
NoOutcome == [ok |-> TRUE, state |-> 0, error |-> NoError, applied |-> 0]

\* The stores one append to each stream id leaves behind.
FoldInit ==
    /\ \E b1 \in Batches, b2 \in Batches :
          /\ event_streams =
                streams_after_append(
                    streams_after_append(<<>>, 1, AnyVersion, b1),
                    2, AnyVersion, b2)
          /\ appended = (1 :> b1 @@ 2 :> b2)
          /\ last_returned = (1 :> Len(b1) @@ 2 :> Len(b2))
    /\ global_offset = 0
    /\ writer = {}
    /\ readers = {}
    /\ pc = [p \in Procs |-> "idle"]
    /\ call = [p \in Procs |-> NoCall]
    /\ result = [p \in Procs |-> NoResult]
    /\ rivals = [p \in Procs |-> {}]
    /\ completed = [p \in Procs |-> 0]
    /\ disturbed = [p \in Procs |-> FALSE]
    /\ \E id \in Ids, initial \in InitialStates :
          replay = [pc |-> "ready", id |-> id, initial |-> initial,
                  state |-> initial, folded |-> 0, from |-> 0, folds |-> 0,
                  input_state |-> initial, input_events |-> <<>>,
                  outcome |-> NoOutcome]

\* The caller reads the stream from the first version it has not folded and
\* folds the first n events of it.
FoldBatch ==
    /\ replay.pc = "ready"
    /\ LET items == stream_events(event_streams, replay.id,
                                  From(replay.folded + 1))
       IN  \E n \in 1..Len(items) :
             LET taken == FoldEvents(SubSeq(items, 1, n))
                 out == fold(replay.state, taken)
             IN  replay' = [replay EXCEPT
                            !.pc = IF out.ok THEN "ready" ELSE "failed",
                            !.state = out.state,
                            !.folded = @ + n,
                            !.folds = @ + 1,
                            !.input_state = replay.state,
                            !.input_events = taken,
                            !.outcome = out]
    /\ UNCHANGED <<event_streams, global_offset, writer, readers, pc, call,
                   result, rivals, appended, last_returned, completed,
                   disturbed>>

\* The caller reads the stream from the first version it has not folded and
\* folds all of it.
FoldRest ==
    /\ replay.pc = "ready"
    /\ LET items == stream_events(event_streams, replay.id,
                                  From(replay.folded + 1))
           out == fold(replay.state, FoldEvents(items))
       IN  replay' = [replay EXCEPT
                      !.pc = IF out.ok THEN "done" ELSE "failed",
                      !.state = out.state,
                      !.from = replay.folded + 1,
                      !.folded = @ + Len(items),
                      !.folds = @ + 1,
                      !.input_state = replay.state,
                      !.input_events = FoldEvents(items),
                      !.outcome = out]
    /\ UNCHANGED <<event_streams, global_offset, writer, readers, pc, call,
                   result, rivals, appended, last_returned, completed,
                   disturbed>>

FoldNext == FoldBatch \/ FoldRest

FoldSpec == FoldInit /\ [][FoldNext]_vars

\* ------------------------------------------------------------ the claims
\* The records the store holds for id, and the version of the last of them.
RecordsOf(id) ==
    IF to_string(id) \in DOMAIN event_streams
    THEN event_streams[to_string(id)]
    ELSE <<>>
LastVersionOf(id) ==
    IF RecordsOf(id) = <<>> THEN 0
    ELSE RecordsOf(id)[Len(RecordsOf(id))].version
AppendedTo(id) == IF id \in DOMAIN appended THEN appended[id] ELSE <<>>
IsPrefix(s, t) == Len(s) <= Len(t) /\ SubSeq(t, 1, Len(s)) = s

\* p's append has run its body and is about to return success / a conflict.
Succeeded(p) == pc[p] = "a_exit" /\ result[p].kind = "ok"
Conflicted(p) == pc[p] = "a_exit" /\ result[p].kind = "conflict"
\* p's stream call has built the sequence it is about to return.
HasRead(p) == pc[p] = "s_exit"

\* C1 as stated: of two concurrent appends on one stream id that carry the
\* same Exact(V), at most one returns success, whatever events they supply.
C1_AtMostOneSucceeds ==
    \A p \in Procs :
        (Succeeded(p) /\ call[p].check.kind = "Exact") => rivals[p] = {}

\* C1 amended: of two concurrent appends on one stream id that carry the
\* same Exact(V), both return success only when the one serialized first
\* supplied no events; a first success with events makes the other fail.
C1_AtMostOneAppendsEvents ==
    \A p \in Procs :
        (Succeeded(p) /\ call[p].check.kind = "Exact")
            => rivals[p] \subseteq {0}

\* C1 witness: an append fails on Exact(V) because a concurrent append with
\* the same Exact(V) and at least one event succeeded first.
C1_Witness ==
    \E p \in Procs :
        /\ Conflicted(p)
        /\ call[p].events # <<>>
        /\ rivals[p] # {} /\ 0 \notin rivals[p]

\* C2: an append whose Exact(V) differs from the stream's current last
\* version (0 if absent) leaves the whole map as it was: no stream changes
\* and no entry is created, whatever events were supplied.
C2_ConflictLeavesStore ==
    [][\A p \in Procs :
          ( /\ pc[p] = "a_locked" /\ pc'[p] = "a_exit"
            /\ call[p].check.kind = "Exact"
            /\ call[p].check.v # LastVersionOf(call[p].id) )
          => event_streams' = event_streams]_vars

\* C2 witness: an append of events to an absent stream has failed on its
\* Exact precondition and the stream is still absent.
C2_Witness ==
    \E p \in Procs :
        /\ Conflicted(p)
        /\ call[p].events # <<>>
        /\ to_string(call[p].id) \notin DOMAIN event_streams
        /\ event_streams # <<>>

\* C3: a failed append returns ConflictError with expected = the V of its
\* Exact(V) and actual = the stream's last version when the precondition was
\* evaluated (0 for a stream never appended to).
C3_ConflictErrorFields ==
    \A p \in Procs :
        Conflicted(p) =>
            /\ call[p].check.kind = "Exact"
            /\ result[p].expected = call[p].check.v
            /\ result[p].actual = LastVersionOf(call[p].id)
            /\ result[p].actual # result[p].expected

\* C3 witness: Exact(3) on the empty store gives expected 3, actual 0.
C3_Witness ==
    \E p \in Procs :
        /\ Conflicted(p)
        /\ event_streams = <<>>
        /\ call[p].check = Exact(3)
        /\ result[p].expected = 3 /\ result[p].actual = 0

\* C4: in every reachable state the records of each stream have the versions
\* 1, 2, ..., N in storage order.
C4_VersionsContiguous ==
    \A k \in DOMAIN event_streams :
        \A n \in 1..Len(event_streams[k]) : event_streams[k][n].version = n

\* C4 witness: a stream built by more than one append holds two records.
C4_Witness ==
    \E p \in Procs :
        /\ Succeeded(p)
        /\ Len(call[p].events) = 1
        /\ Len(RecordsOf(call[p].id)) = 2

\* C5 as stated: every successful append returns the version of the last
\* record the stream holds once the append has taken effect.
C5_ReturnsNewLastVersion ==
    \A p \in Procs :
        Succeeded(p) => result[p].version = LastVersionOf(call[p].id)

\* C6 as stated, in its weakest reading (an append of no events may repeat
\* the previous version): each successful append to a stream id returns the
\* version the previous one returned plus the number of events it supplied,
\* counting from 0, so the first event ever appended gets version 1.
C6_ReturnedVersionsIncrease ==
    \A p \in Procs :
        Succeeded(p) =>
            result[p].version
                = last_returned[call[p].id] + Len(call[p].events)

\* C7: with no append intervening, stream(S, All) yields the events appended
\* to S, in the order the appends took effect: record j has version j, the
\* j-th appended payload and the stream id S; and an append of k events with
\* Exact(0) returns k.
C7_ReadYieldsAppended ==
    /\ \A p \in Procs :
          (HasRead(p) /\ call[p].select = All) =>
              result[p].items =
                  [j \in 1..Len(AppendedTo(call[p].id)) |->
                      Ok(Persisted(call[p].id, j, AppendedTo(call[p].id)[j]))]
    /\ \A p \in Procs :
          (Succeeded(p) /\ call[p].check = Exact(0)) =>
              result[p].version = Len(call[p].events)

\* C7 witness: a read of All returns two records with different payloads.
C7_Witness ==
    \E p \in Procs :
        /\ HasRead(p) /\ call[p].select = All
        /\ Len(result[p].items) = 2
        /\ result[p].items[1].value.inner # result[p].items[2].value.inner

\* C8: stream(S, From(v)) yields the suffix of S's records that starts at
\* version v, in ascending order: all of them for v = 0 and v = 1, none for
\* v past the last version.
C8_FromYieldsSuffix ==
    \A p \in Procs :
        (HasRead(p) /\ call[p].select.kind = "From") =>
            LET all == RecordsOf(call[p].id)
                v == call[p].select.v
                first == IF v = 0 THEN 1 ELSE v
                suffix == SubSeq(all, first, Len(all))
            IN  /\ result[p].items = [j \in 1..Len(suffix) |-> Ok(suffix[j])]
                /\ \A j \in 1..Len(result[p].items) :
                       result[p].items[j].value.version >= v
                /\ v <= 1 => Len(result[p].items) = Len(all)
                /\ v = Len(all) + 1 => result[p].items = <<>>

\* C8 witness: From(2) on a stream of two records yields the second alone.
C8_Witness ==
    \E p \in Procs :
        /\ HasRead(p) /\ call[p].select = From(2)
        /\ Len(RecordsOf(call[p].id)) = 2
        /\ Len(result[p].items) = 1
        /\ result[p].items[1].value.version = 2

\* C9: stream on an id that never had a successful append returns the empty
\* sequence; no stream call yields an error element; and a stream call
\* creates no stream.
C9_UnknownStreamIsEmpty ==
    [][\A p \in Procs :
          /\ HasRead(p)' =>
                /\ \A j \in 1..Len(result'[p].items) : result'[p].items[j].ok
                /\ call'[p].id \notin DOMAIN appended'
                      => result'[p].items = <<>>
          /\ (pc[p] \in {"s_wait", "s_locked", "s_exit"} /\ pc'[p] # pc[p])
                => DOMAIN event_streams' = DOMAIN event_streams]_vars

\* C9 witness: a read of an id never appended to returns nothing while
\* another stream holds events.
C9_Witness ==
    \E p \in Procs :
        /\ HasRead(p)
        /\ call[p].id \notin DOMAIN appended
        /\ result[p].items = <<>>
        /\ \E id \in Ids : RecordsOf(id) # <<>>

\* C10: in every step each stream's content before the step is a prefix of
\* its content after it, and no stream is deleted.
C10_AppendOnly ==
    [][\A k \in DOMAIN event_streams :
          /\ k \in DOMAIN event_streams'
          /\ IsPrefix(event_streams[k], event_streams'[k])]_vars

\* C10 witness: an append has extended a stream that already held a record
\* with a different payload.
C10_Witness ==
    \E p \in Procs :
        /\ Succeeded(p)
        /\ Len(call[p].events) = 1
        /\ Len(RecordsOf(call[p].id)) = 2
        /\ RecordsOf(call[p].id)[1].inner # call[p].events[1]

\* C11: a stream(S, All) call that begins after appends to S have returned
\* yields every event of those appends, in order, whatever other callers do
\* meanwhile.
C11_ReadYourWrites ==
    \A p \in Procs :
        (HasRead(p) /\ call[p].select = All) =>
            /\ Len(result[p].items) >= completed[p]
            /\ \A j \in 1..completed[p] :
                  /\ result[p].items[j].ok
                  /\ result[p].items[j].value.inner
                        = AppendedTo(call[p].id)[j]

\* C11 witness: a read that began after one event's append had returned
\* yields it, and a second event whose append completed during the read.
C11_Witness ==
    \E p \in Procs :
        /\ HasRead(p) /\ call[p].select = All
        /\ completed[p] = 1
        /\ Len(result[p].items) = 2

\* C12: the body of append fails exactly when its precondition is Exact(V)
\* with V different from the stream's last version (0 if absent); it succeeds
\* otherwise, and ConflictError is the only error it returns.
C12_FailsOnlyOnConflict ==
    [][\A p \in Procs :
          (pc[p] = "a_locked" /\ pc'[p] = "a_exit") =>
              /\ result'[p].kind \in {"ok", "conflict"}
              /\ result'[p].kind = "conflict"
                    <=> ( /\ call[p].check.kind = "Exact"
                          /\ call[p].check.v # LastVersionOf(call[p].id) )]_vars

\* C12 witness: an append with no constraint has succeeded on a stream that
\* already held a record.
C12_Witness ==
    \E p \in Procs :
        /\ Succeeded(p)
        /\ call[p].check = AnyVersion
        /\ Len(call[p].events) = 1
        /\ Len(RecordsOf(call[p].id)) = 2

\* The state after the first n of events, when apply accepts them all.
RECURSIVE StateAfter(_, _, _)
StateAfter(state, events, n) ==
    IF n = 0 THEN state
    ELSE apply(StateAfter(state, events, n - 1), events[n]).state
\* apply refuses the n-th of events, having accepted those before it.
FirstRefused(state, events, n) ==
    /\ \A m \in 1..(n - 1) :
          apply(StateAfter(state, events, m - 1), events[m]).ok
    /\ ~apply(StateAfter(state, events, n - 1), events[n]).ok

\* C13: fold hands the events to apply in order, threading the state; at the
\* first error it stops, returns that error and applies nothing more; with
\* no error it returns the state after the last event (the initial state for
\* no events).
C13_FoldStopsAtFirstError ==
    (replay.pc # "none" /\ replay.folds > 0) =>
        LET s0 == replay.input_state
            es == replay.input_events
            out == replay.outcome
        IN  IF \E n \in 1..Len(es) : FirstRefused(s0, es, n)
            THEN \A n \in 1..Len(es) : FirstRefused(s0, es, n) =>
                    /\ ~out.ok
                    /\ out.error
                          = apply(StateAfter(s0, es, n - 1), es[n]).error
                    /\ out.applied = n
            ELSE /\ out.ok
                 /\ out.state = StateAfter(s0, es, Len(es))
                 /\ out.applied = Len(es)

\* C13 witness: a fold has stopped at an error with an event left unapplied.
C13_Witness ==
    /\ replay.pc = "failed"
    /\ ~replay.outcome.ok
    /\ replay.outcome.applied < Len(replay.input_events)
    /\ replay.outcome.error.event = "b"

\* C17: folding the events before version v and then stream(S, From(v)) from
\* the state reached gives the outcome of folding stream(S, All) from the
\* initial state: the same final state, or the same first error.
C17_ReplayInBatches ==
    replay.pc \in {"done", "failed"} =>
        LET whole == fold(replay.initial,
                          FoldEvents(stream_events(event_streams, replay.id,
                                                   All)))
        IN  /\ replay.outcome.ok = whole.ok
            /\ replay.outcome.state = whole.state
            /\ replay.outcome.error = whole.error

\* C17 witness: a replay has folded version 1 first and then From(2), which
\* held one more event.
C17_Witness ==
    /\ replay.pc = "done"
    /\ replay.from = 2
    /\ replay.folded = 2
    /\ Len(replay.input_events) = 1

\* The payloads of a sequence of records.
InnerOf(records) == [j \in 1..Len(records) |-> records[j].inner]
\* p's step is the body of its append / of its stream call.
IsAppendBody(p) == pc[p] = "a_locked" /\ pc'[p] = "a_exit"
IsStreamBody(p) == pc[p] = "s_locked" /\ pc'[p] = "s_exit"

C16_StreamNeverMutates ==
    [][\A p \in Procs :
          ( /\ pc'[p] # pc[p]
            /\ \/ pc[p] \in {"s_wait", "s_locked", "s_exit"}
               \/ pc'[p] \in {"s_wait", "s_locked", "s_exit"} )
          => /\ event_streams' = event_streams
             /\ \A id \in Ids :
                   /\ RecordsOf(id)' = RecordsOf(id)
                   /\ LastVersionOf(id)' = LastVersionOf(id)]_vars

\* C16 witness: two reads are about to return, one of a stream that holds
\* events and one, with From, of an id the map does not hold.
C16_Witness ==
    \E p \in Procs, q \in Procs :
        /\ HasRead(p) /\ HasRead(q)
        /\ RecordsOf(call[p].id) # <<>>
        /\ to_string(call[q].id) \notin DOMAIN event_streams
        /\ call[q].select.kind = "From"

\* C18: of the concurrent appends of events to one stream with Exact(V), V
\* the stream's last version, and no other append to it: the first to run
\* succeeds, returns V + n and leaves its n events after version V; each
\* other one fails with ConflictError{expected: V, actual: V + n} and finds
\* the stream holding the winner's events only after version V.
C18_ExactlyOneRacerWins ==
    \A p \in Procs :
        ( /\ pc[p] = "a_exit"
          /\ call[p].check.kind = "Exact"
          /\ call[p].events # <<>>
          /\ ~disturbed[p]
          /\ 0 \notin rivals[p] ) =>
            LET id == call[p].id
                V == call[p].check.v
                n == Len(call[p].events)
            IN  IF rivals[p] = {}
                THEN /\ result[p].kind = "ok"
                     /\ result[p].version = V + n
                     /\ LastVersionOf(id) = V + n
                     /\ Len(RecordsOf(id)) = V + n
                     /\ SubSeq(InnerOf(RecordsOf(id)), V + 1, V + n)
                           = call[p].events
                ELSE /\ result[p].kind = "conflict"
                     /\ \E w \in rivals[p] :
                           /\ rivals[p] = {w}
                           /\ result[p].expected = V
                           /\ result[p].actual = V + w
                           /\ LastVersionOf(id) = V + w
                           /\ Len(RecordsOf(id)) = V + w

\* C18 witness: the loser of a race of two appends with Exact(0) is about to
\* return the conflict, the stream holding the winner's one event.
C18_Witness ==
    \E p \in Procs :
        /\ Conflicted(p)
        /\ call[p].check = Exact(0)
        /\ Len(call[p].events) = 1
        /\ rivals[p] = {1}
        /\ ~disturbed[p]
        /\ result[p].actual = 1
        /\ InnerOf(RecordsOf(call[p].id)) # call[p].events

\* C19: a successful append to S leaves the content and last version of
\* every other stream, and the set of the other streams, as they were; the
\* versions it assigns are S's last version + 1, + 2, ..., whatever the
\* other streams hold.
C19_VersionsStreamLocal ==
    [][\A p \in Procs :
          (IsAppendBody(p) /\ result'[p].kind = "ok") =>
              LET key == to_string(call[p].id)
                  old == RecordsOf(call[p].id)
                  new == RecordsOf(call[p].id)'
              IN  /\ DOMAIN event_streams' \ {key}
                        = DOMAIN event_streams \ {key}
                  /\ \A k \in DOMAIN event_streams \ {key} :
                        event_streams'[k] = event_streams[k]
                  /\ \A id \in Ids \ {call[p].id} :
                        LastVersionOf(id)' = LastVersionOf(id)
                  /\ Len(new) = Len(old) + Len(call[p].events)
                  /\ \A j \in 1..Len(call[p].events) :
                        new[Len(old) + j].version
                            = LastVersionOf(call[p].id) + j]_vars

\* C19 witness: an append has given version 1 to the first event of a
\* stream while another stream holds an event.
C19_Witness ==
    \E p \in Procs, other \in Ids :
        /\ Succeeded(p)
        /\ other # call[p].id
        /\ Len(RecordsOf(other)) = 1
        /\ Len(call[p].events) = 1
        /\ Len(RecordsOf(call[p].id)) = 1
        /\ RecordsOf(call[p].id)[1].version = 1

\* p holds a guard of the lock: its body is running or has run.
HoldsGuard(p) == pc[p] \in {"a_locked", "a_exit", "s_locked", "s_exit"}

\* C20 as stated: under weak fairness every started append and every started
\* stream call eventually returns.
C20_EveryCallReturns ==
    \A p \in Procs : (pc[p] # "idle") ~> (pc[p] = "idle")

\* C20 amended: under weak fairness every call that holds the lock eventually
\* returns and gives the lock back; while a call is in progress some call
\* can take a step (no deadlock); and a call waiting for the lock returns if
\* the other callers stop issuing calls.
C20_LockHoldersReturn ==
    /\ \A p \in Procs : HoldsGuard(p) ~> (pc[p] = "idle")
    /\ [](\A p \in Procs : pc[p] = "idle" => p \notin writer \cup readers)
    /\ []((\E p \in Procs : pc[p] # "idle")
             => ENABLED (\E p \in Procs : Proceed(p)))
    /\ \A p \in Procs :
          <>[](\A q \in Procs \ {p} : pc[q] = "idle")
              => []<>(pc[p] = "idle")

\* C20 witness: an append waits for the lock while a read holds it.
C20_Witness ==
    \E p \in Procs, q \in Procs :
        /\ pc[p] = "a_wait"
        /\ pc[q] = "s_exit"
        /\ q \in readers
        /\ writer = {}
====
